---- MODULE Spec2Model ----
(***************************************************************************)
(* Model of prettyresults/dataloader.py: the DataLoader preprocessing      *)
(* pipeline (load_data, _preprocess, _compute_derived, _drop_na,           *)
(* add_warning) and the variable combinators (combine_variables,           *)
(* combine_variables_bool, logical_or, logical_and, multibool_to_enum).    *)
(*                                                                         *)
(* Encoding of cell values.  A cell is an integer: NaN (-1) is np.nan, a   *)
(* number n >= 0 is the float n.0, 10+k is the canonical label of the      *)
(* category key k, and 100+i is the name of the i-th registry variable     *)
(* when it is stored as a value (the result of multibool_to_enum).         *)
(* Column names are strings; the declared names never end in "_ORIGINAL".  *)
(***************************************************************************)
EXTENDS Integers, Sequences, FiniteSets, TLC

VARIABLES
    variables,  \* self.variables: the registry, a sequence of VariableSpec
    warnings,   \* self._warnings: the warning log
    df,         \* the table of the load in progress
    ctx,        \* the add_table calls received by ctx.get_result('root')
    pc,         \* position inside load_data / _preprocess
    hk,         \* position of _compute_derived in self.variables.items()
    loopcols,   \* the columns the loop "for varname in df" iterates
    ci,         \* position of that loop
    input,      \* history: the table as returned by read_csv
    tbl0,       \* history: the table when the coercion loop started
    events,     \* history: the steps taken since construction, in order
    log,        \* history: the warnings of every add_warning call, each step's
                \* calls taken from a run of the step on an empty log
    nloads,     \* history: number of load_data calls started
    ext         \* history: number of add_warning calls made by the caller

vars == << variables, warnings, df, ctx, pc, hk, loopcols, ci,
           input, tbl0, events, log, nloads, ext >>

-----------------------------------------------------------------------------
(* Bounds *)
MaxRows == 2        \* rows of the file, one load
MaxLoadRows == 1    \* rows of a file, repeated loads
MaxLoads == 2       \* load_data calls on one DataLoader
MaxExt == 1         \* add_warning calls made by the caller
MaxCombRows == 1    \* rows of the table a combinator is applied to

-----------------------------------------------------------------------------
(* Values *)
NaN == -1
DEFAULT_NA_VALUES == {98, 99}
isnan(v) == v = NaN

FileVal == {NaN, 0, 1, 2}
LoadVal == {NaN, 0, 1}
CombVal == {NaN, 0, 1, 2, 98}

Range(s) == {s[i] : i \in 1..Len(s)}

RECURSIVE FilterBy(_, _)
FilterBy(s, m) ==
    IF s = <<>> THEN <<>>
    ELSE (IF Head(m) THEN <<Head(s)>> ELSE <<>>) \o FilterBy(Tail(s), Tail(m))

Perms(S) ==
    {p \in [1..Cardinality(S) -> S] : \A i, j \in 1..Cardinality(S) : p[i] = p[j] => i = j}

-----------------------------------------------------------------------------
(* The table (pandas.DataFrame): index labels, column order, column data,  *)
(* column dtypes.                                                          *)
EmptyDf == [index |-> <<>>, columns |-> <<>>, data |-> <<>>, dtype |-> <<>>]

HasCol(d, name) == name \in Range(d.columns)

NRows(d) == Len(d.index)

\* df[name] = values
SetItem(d, name, values, dt) ==
    LET names == Range(d.columns) \cup {name}
    IN  [index   |-> d.index,
         columns |-> IF HasCol(d, name) THEN d.columns ELSE Append(d.columns, name),
         data    |-> [c \in names |-> IF c = name THEN values ELSE d.data[c]],
         dtype   |-> [c \in names |-> IF c = name THEN dt ELSE d.dtype[c]]]

\* the row at position i, as handed to a row-wise function: its values and
\* its index label (Series.name)
Row(d, i) == [name |-> d.index[i], val |-> [c \in Range(d.columns) |-> d.data[c][i]]]

Orig(varname) == varname \o "_ORIGINAL"

-----------------------------------------------------------------------------
(* WarningSink: DataLoader.add_warning *)

\* a case given as a row (pandas.Series) or as a string
SeriesCase(row) == [series |-> TRUE, row |-> row, str |-> <<>>]
StrCase(k) == [series |-> FALSE, row |-> [name |-> 0, val |-> <<>>], str |-> <<"id", k>>]

\* the caller-supplied function: the identifier of the row's case
case_id_fun(row) == <<"case", row.name>>

\* mutant: a warning already in the log is not logged again
add_warning_dedup(ws, case_id, text) ==
    LET w == [case_id |-> IF case_id.series THEN case_id_fun(case_id.row)
                          ELSE case_id.str,
              text    |-> text]
    IN  IF w \in Range(ws) THEN ws ELSE Append(ws, w)

add_warning(ws, case_id, text) ==
    Append(ws, [case_id |-> IF case_id.series THEN case_id_fun(case_id.row)
                            ELSE case_id.str,
                text    |-> text])

\* the three message formats of the module
PerdidaText(varname) == [kind |-> "perdida", vars |-> <<varname>>, vals |-> <<>>]
ConflictText(varname1, v1, varname2, v2) ==
    [kind |-> "Valores contradictorios", vars |-> <<varname1, varname2>>, vals |-> <<v1, v2>>]
MultiboolText(varnames, values) ==
    [kind |-> "Multi-bool a enum - valores contradictorios", vars |-> varnames, vals |-> values]
UserText(k) == [kind |-> "user", vars |-> <<>>, vals |-> <<k>>]

-----------------------------------------------------------------------------
(* VariableCombinators.  A hook is a record                                *)
(*   [op, args, on_conflict, na_values]                                    *)
(* and an on_conflict is [callable, fn, lit]: a function of (v1, v2) when  *)
(* callable, else the literal lit.                                         *)
Names == <<"A", "B", "C", "D", "E">>
NameCode(name) == 100 + (CHOOSE i \in 1..Len(Names) : Names[i] = name)

Literal(v) == [callable |-> FALSE, fn |-> "", lit |-> v]
Callable(f) == [callable |-> TRUE, fn |-> f, lit |-> NaN]

\* on_conflict(v1, v2) for the callables used: lambda a, b: a;
\* lambda v1, v2: v1 or v2 (combine_variables_bool); lambda a, b: nan
CallConflict(fn, v1, v2) ==
    CASE fn = "first" -> v1
      [] fn = "or"    -> IF v1 # 0 THEN v1 ELSE v2
      [] OTHER        -> NaN

NoHook ==
    [op |-> "none", args |-> <<>>, on_conflict |-> Literal(NaN), na_values |-> {},
     combinators |-> <<>>]

combine_variables(varname1, varname2, on_conflict, na_values) ==
    [op |-> "combine", args |-> <<varname1, varname2>>,
     on_conflict |-> on_conflict, na_values |-> na_values, combinators |-> <<>>]

combine_variables_bool(varname1, varname2, na_values) ==
    combine_variables(varname1, varname2, Callable("or"), na_values)

\* mutant: the false combinator of logical_or is "|" too
logical_or_BothOr(varnames) ==
    [op |-> "logical", args |-> varnames, on_conflict |-> Literal(NaN), na_values |-> {},
     combinators |-> <<"|", "|">>]

\* the hook _logical_op returns, with the two combinators it closes over
LogicalHook(true_combinator, false_combinator, varnames) ==
    [op |-> "logical", args |-> varnames, on_conflict |-> Literal(NaN), na_values |-> {},
     combinators |-> <<true_combinator, false_combinator>>]

logical_or(varnames) == LogicalHook("|", "&", varnames)

logical_and(varnames) == LogicalHook("&", "|", varnames)

multibool_to_enum(varnames, na_values) ==
    [op |-> "multibool", args |-> varnames, on_conflict |-> Literal(NaN),
     na_values |-> na_values, combinators |-> <<>>]

\* mutant: every conflict is warned about, whatever it resolves to
_combine_variables_row_AlwaysWarn(row, varname1, varname2, on_conflict, na_values, ws) ==
    LET v1 == row.val[varname1]
        v2 == row.val[varname2]
        is_nan_1 == isnan(v1) \/ v1 \in na_values
        is_nan_2 == isnan(v2) \/ v2 \in na_values
        res == IF on_conflict.callable THEN CallConflict(on_conflict.fn, v1, v2)
               ELSE on_conflict.lit
    IN  IF is_nan_1 /\ is_nan_2 THEN [res |-> NaN, ws |-> ws]
        ELSE IF ~is_nan_1 /\ is_nan_2 THEN [res |-> v1, ws |-> ws]
        ELSE IF is_nan_1 /\ ~is_nan_2 THEN [res |-> v2, ws |-> ws]
        ELSE IF v1 = v2 THEN [res |-> v1, ws |-> ws]
        ELSE [res |-> res,
              ws  |-> add_warning(ws, SeriesCase(row),
                                  ConflictText(varname1, v1, varname2, v2))]

\* the result of a row function: the value returned and the warning log
\* after the call
_combine_variables_row(row, varname1, varname2, on_conflict, na_values, ws) ==
    LET v1 == row.val[varname1]
        v2 == row.val[varname2]
        is_nan_1 == isnan(v1) \/ v1 \in na_values
        is_nan_2 == isnan(v2) \/ v2 \in na_values
        res == IF on_conflict.callable THEN CallConflict(on_conflict.fn, v1, v2)
               ELSE on_conflict.lit
    IN  IF is_nan_1 /\ is_nan_2 THEN [res |-> NaN, ws |-> ws]
        ELSE IF ~is_nan_1 /\ is_nan_2 THEN [res |-> v1, ws |-> ws]
        ELSE IF is_nan_1 /\ ~is_nan_2 THEN [res |-> v2, ws |-> ws]
        ELSE IF v1 = v2 THEN [res |-> v1, ws |-> ws]
        ELSE [res |-> res,
              ws  |-> IF isnan(res)
                      THEN add_warning(ws, SeriesCase(row),
                                       ConflictText(varname1, v1, varname2, v2))
                      ELSE ws]

\* mutant: only more than one true variable is contradictory
_multibool_to_enum_row_ManyOnly(row, varnames, na_values, ws) ==
    LET row_fragment == [i \in 1..Len(varnames) |-> row.val[varnames[i]]]
        num_vars == Len(varnames)
        n_isna == Cardinality({i \in 1..num_vars : isnan(row_fragment[i])})
        n_isin == Cardinality({i \in 1..num_vars : row_fragment[i] \in na_values})
        true_vars == {i \in 1..num_vars : row_fragment[i] = 1}
    IN  IF n_isna + n_isin = num_vars THEN [res |-> NaN, ws |-> ws]
        ELSE IF Cardinality(true_vars) > 1
        THEN [res |-> NaN,
              ws  |-> add_warning(ws, SeriesCase(row), MultiboolText(varnames, row_fragment))]
        ELSE IF Cardinality(true_vars) = 0 THEN [res |-> NaN, ws |-> ws]
        ELSE [res |-> NameCode(varnames[CHOOSE i \in true_vars : TRUE]), ws |-> ws]

_multibool_to_enum_row(row, varnames, na_values, ws) ==
    LET row_fragment == [i \in 1..Len(varnames) |-> row.val[varnames[i]]]
        num_vars == Len(varnames)
        n_isna == Cardinality({i \in 1..num_vars : isnan(row_fragment[i])})
        n_isin == Cardinality({i \in 1..num_vars : row_fragment[i] \in na_values})
        true_vars == {i \in 1..num_vars : row_fragment[i] = 1}
    IN  IF n_isna + n_isin = num_vars THEN [res |-> NaN, ws |-> ws]
        ELSE IF Cardinality(true_vars) # 1
        THEN [res |-> NaN,
              ws  |-> add_warning(ws, SeriesCase(row), MultiboolText(varnames, row_fragment))]
        ELSE [res |-> NameCode(varnames[CHOOSE i \in true_vars : TRUE]), ws |-> ws]

RowFun(h, row, ws) ==
    IF h.op = "combine"
    THEN _combine_variables_row(row, h.args[1], h.args[2], h.on_conflict, h.na_values, ws)
    ELSE _multibool_to_enum_row(row, h.args, h.na_values, ws)

\* df.apply(lambda row: ..., axis=1): the rows in index order
RECURSIVE Apply(_, _, _, _)
Apply(h, d, i, acc) ==
    IF i > NRows(d) THEN acc
    ELSE LET r == RowFun(h, Row(d, i), acc.ws)
         IN  Apply(h, d, i + 1, [values |-> Append(acc.values, r.res), ws |-> r.ws])

Combinator(c, x, y) == IF c = "|" THEN x \/ y ELSE x /\ y

\* the loop "for vname in varnames" of _logical_op, on one mask
RECURSIVE Accumulate(_, _, _, _, _, _)
Accumulate(c, mask, d, varnames, k, target) ==
    IF k > Len(varnames) THEN mask
    ELSE Accumulate(c,
                    [i \in 1..NRows(d) |-> Combinator(c, mask[i], d.data[varnames[k]][i] = target)],
                    d, varnames, k + 1, target)

\* true_values and false_values of _logical_op when its loop has ended
LogicalMasks(true_combinator, false_combinator, varnames, d) ==
    LET true_0  == [i \in 1..NRows(d) |-> d.data[varnames[1]][i] = 1]
        false_0 == [i \in 1..NRows(d) |-> d.data[varnames[1]][i] = 0]
    IN  [true_values  |-> Accumulate(true_combinator, true_0, d, varnames, 1, 1),
         false_values |-> Accumulate(false_combinator, false_0, d, varnames, 1, 0)]

\* result_series: nan, then 1.0 under true_values, then 0.0 under false_values
_logical_op(true_combinator, false_combinator, varnames, d) ==
    LET m == LogicalMasks(true_combinator, false_combinator, varnames, d)
        nans == [i \in 1..NRows(d) |-> NaN]
        ones == [i \in 1..NRows(d) |-> IF m.true_values[i] THEN 1 ELSE nans[i]]
    IN  [i \in 1..NRows(d) |-> IF m.false_values[i] THEN 0 ELSE ones[i]]

\* a hook reads a column the table does not have: KeyError
KeyError(h, d) == \E i \in 1..Len(h.args) : ~HasCol(d, h.args[i])

\* the hooks built on DataFrame.apply
RowWise(h) == h.op \in {"combine", "multibool"}

\* fun(df, self): the column computed, its dtype, and the warning log after
HookResult(h, d, ws) ==
    IF h.op = "logical"
    THEN [values |-> _logical_op(h.combinators[1], h.combinators[2], h.args, d),
          dtype  |-> "float64",
          ws     |-> ws]
    ELSE LET a == Apply(h, d, 1, [values |-> <<>>, ws |-> ws])
         IN  [values |-> a.values,
              dtype  |-> IF h.op = "multibool" THEN "object" ELSE "float64",
              ws     |-> a.ws]

-----------------------------------------------------------------------------
(* VariableRegistry: the metadata handed to the constructor.  A            *)
(* VariableSpec is [name, type, mandatory, labels, ordered, pre, post];    *)
(* labels maps a category key to its canonical value (value[0]); pre and   *)
(* post are the 'computation-pre' and 'computation-post' hooks.            *)
NoLabels == <<>>
Labels01 == [k \in {0, 1} |-> 10 + k]
LabelsAB == [k \in {NameCode("A"), NameCode("B")} |-> 10 + k]

FileVar(name, type, mandatory, labels) ==
    [name |-> name, type |-> type, mandatory |-> mandatory, labels |-> labels,
     ordered |-> FALSE, pre |-> NoHook, post |-> NoHook]
PreVar(name, type, mandatory, labels, fun) ==
    [name |-> name, type |-> type, mandatory |-> mandatory, labels |-> labels,
     ordered |-> TRUE, pre |-> fun, post |-> NoHook]
PostVar(name, type, mandatory, labels, fun) ==
    [name |-> name, type |-> type, mandatory |-> mandatory, labels |-> labels,
     ordered |-> FALSE, pre |-> NoHook, post |-> fun]

\* two mandatory file columns, a derived conflict column, a mandatory
\* post-pass column
Registry1 ==
    << FileVar("A", "Bool", TRUE, NoLabels),
       FileVar("B", "Category", TRUE, Labels01),
       PreVar("C", "Float", FALSE, NoLabels,
              combine_variables("A", "B", Literal(NaN), DEFAULT_NA_VALUES)),
       PostVar("D", "Bool", TRUE, NoLabels, logical_or(<<"A", "C">>)) >>

\* a mandatory derived category, a post-pass merge
Registry2 ==
    << FileVar("A", "Int", TRUE, NoLabels),
       FileVar("B", "Bool", FALSE, NoLabels),
       PreVar("C", "Category", TRUE, LabelsAB,
              multibool_to_enum(<<"A", "B">>, DEFAULT_NA_VALUES)),
       PostVar("D", "Float", FALSE, NoLabels,
               combine_variables_bool("A", "B", DEFAULT_NA_VALUES)) >>

\* a pre-pass hook reading the column of an earlier pre-pass hook, and a
\* post-pass hook reading both
Registry3 ==
    << FileVar("B", "Int", TRUE, NoLabels),
       FileVar("A", "Bool", FALSE, NoLabels),
       PreVar("C", "Bool", TRUE, NoLabels, logical_and(<<"A", "B">>)),
       PreVar("D", "Float", FALSE, NoLabels,
              combine_variables("C", "A", Callable("first"), DEFAULT_NA_VALUES)),
       PostVar("E", "Bool", FALSE, NoLabels, logical_or(<<"C", "D">>)) >>

\* a pre-pass hook reading a column only the post-pass creates
Registry4 ==
    << FileVar("A", "Float", TRUE, NoLabels),
       FileVar("B", "Bool", TRUE, NoLabels),
       PreVar("C", "Float", FALSE, NoLabels,
              combine_variables("A", "D", Literal(NaN), DEFAULT_NA_VALUES)),
       PostVar("D", "Bool", FALSE, NoLabels, logical_or(<<"A", "B">>)) >>

\* a post-pass hook reading an undeclared column
Registry5 ==
    << FileVar("A", "Float", TRUE, NoLabels),
       FileVar("B", "Category", FALSE, Labels01),
       PostVar("C", "Float", FALSE, NoLabels,
               combine_variables("A", "Z", Literal(NaN), DEFAULT_NA_VALUES)) >>

\* one mandatory file column and a row-wise post-pass hook
Registry6 ==
    << FileVar("A", "Int", TRUE, NoLabels),
       PostVar("D", "Category", FALSE, NoLabels,
               multibool_to_enum(<<"A">>, DEFAULT_NA_VALUES)) >>

Registries == {Registry1, Registry2, Registry3, Registry4, Registry5}
LoadRegistries == {Registry6}

\* self.variables[varname]
VarData(varname) ==
    variables[CHOOSE i \in 1..Len(variables) : variables[i].name = varname]

\* var.get(calculation_key)
Computation(var, calculation_key) ==
    IF calculation_key = "computation-pre" THEN var.pre ELSE var.post

\* load_data: the names read from the file
csv_varnames ==
    {variables[i].name : i \in {j \in 1..Len(variables) :
        variables[j].pre.op = "none" /\ variables[j].post.op = "none"}}

-----------------------------------------------------------------------------
(* Preprocessor: the pure parts of _preprocess and _drop_na *)

\* astype(cat_type) and rename_categories(cat_map): a value that is no
\* category key becomes missing, a key becomes its canonical value
CoerceCategory(values, labels) ==
    [i \in 1..Len(values) |->
        IF values[i] \in DOMAIN labels THEN labels[values[i]] ELSE NaN]

\* df.loc[~df[varname].isin((0, 1)), [varname]] = np.nan
CoerceBool(values) ==
    [i \in 1..Len(values) |-> IF values[i] \in {0, 1} THEN values[i] ELSE NaN]

\* read_csv's dtype of a numeric column
InferDtype(values) ==
    IF \E i \in 1..Len(values) : isnan(values[i]) THEN "float64" ELSE "int64"

\* mutant: the snapshot holds the values as the Bool coercion leaves them
Snapshot_AfterCoercion(d, varname) ==
    SetItem(d, Orig(varname), CoerceBool(d.data[varname]), d.dtype[varname])

\* df[varname + '_ORIGINAL'] = df[varname]
Snapshot(d, varname) ==
    SetItem(d, Orig(varname), d.data[varname], d.dtype[varname])

\* the "Convert to adequate type" branch
Coerce(d, varname, vardata) ==
    IF vardata.type = "Category"
    THEN SetItem(d, varname, CoerceCategory(d.data[varname], vardata.labels),
                 IF vardata.ordered THEN "category(ordered)" ELSE "category")
    ELSE IF vardata.type = "Bool"
    THEN LET values == CoerceBool(d.data[varname])
         IN  SetItem(d, varname, values,
                     IF values = d.data[varname] THEN d.dtype[varname] ELSE "float64")
    ELSE d

\* mutant: dropna without subset, a row goes when any column is missing
dropna_any(d, varname) ==
    LET keep == [i \in 1..NRows(d) |-> \A c \in Range(d.columns) : ~isnan(d.data[c][i])]
    IN  [index   |-> FilterBy(d.index, keep),
         columns |-> d.columns,
         data    |-> [c \in Range(d.columns) |-> FilterBy(d.data[c], keep)],
         dtype   |-> d.dtype]

\* df.dropna(subset=[varname], inplace=True)
dropna(d, varname) ==
    LET keep == [i \in 1..NRows(d) |-> ~isnan(d.data[varname][i])]
    IN  [index   |-> FilterBy(d.index, keep),
         columns |-> d.columns,
         data    |-> [c \in Range(d.columns) |-> FilterBy(d.data[c], keep)],
         dtype   |-> d.dtype]

\* the loop over lost_cases.iterrows()
RECURSIVE WarnLost(_, _, _, _)
WarnLost(d, varname, i, ws) ==
    IF i > NRows(d) THEN ws
    ELSE WarnLost(d, varname, i + 1,
                  IF isnan(d.data[varname][i])
                  THEN add_warning(ws, SeriesCase(Row(d, i)), PerdidaText(varname))
                  ELSE ws)

\* mutant: one warning for the variable, not one for each lost row
_drop_na_once(d, varname, ws) ==
    LET lost_cases == {i \in 1..NRows(d) : isnan(d.data[varname][i])}
        first == CHOOSE i \in lost_cases : \A j \in lost_cases : i <= j
    IN  IF Cardinality(lost_cases) # 0
        THEN [df |-> dropna(d, varname),
              ws |-> add_warning(ws, SeriesCase(Row(d, first)), PerdidaText(varname))]
        ELSE [df |-> d, ws |-> ws]

_drop_na(d, varname, ws) ==
    LET lost_cases == {i \in 1..NRows(d) : isnan(d.data[varname][i])}
    IN  IF Cardinality(lost_cases) # 0
        THEN [df |-> dropna(d, varname), ws |-> WarnLost(d, varname, 1, ws)]
        ELSE [df |-> d, ws |-> ws]

\* df[varname] = df[varname].astype(np.int64)
AsInt64(d, varname) == SetItem(d, varname, d.data[varname], "int64")

\* the "Mandatory checking" block
Mandatory(d, varname, vardata, ws) ==
    IF vardata.mandatory
    THEN LET r == _drop_na(d, varname, ws)
         IN  [df |-> IF vardata.type = "Int" THEN AsInt64(r.df, varname) ELSE r.df,
              ws |-> r.ws]
    ELSE [df |-> d, ws |-> ws]

-----------------------------------------------------------------------------
(* Loader and Preprocessor: the steps of load_data *)

\* read_csv(fname, usecols=csv_varnames, na_values=na_values): the columns
\* in the order of the file, the rows in the order of the file
Tables(order, n, vals) ==
    {[index   |-> [i \in 1..n |-> i - 1],
      columns |-> order,
      data    |-> data,
      dtype   |-> [c \in Range(order) |-> InferDtype(data[c])]] :
        data \in [Range(order) -> [1..n -> vals]]}

LoadData(maxRows, maxLoads, vals) ==
    /\ pc = "idle"
    /\ nloads < maxLoads
    /\ \E order \in Perms(csv_varnames), n \in 0..maxRows :
         \E t \in Tables(order, n, vals) :
            /\ df' = t
            /\ input' = t
    /\ pc' = "computation-pre"
    /\ hk' = 1
    /\ nloads' = nloads + 1
    /\ events' = Append(events, <<"load_data", "fname">>)
    /\ tbl0' = EmptyDf
    /\ loopcols' = <<>>
    /\ ci' = 0
    /\ UNCHANGED << variables, warnings, ctx, log, ext >>

\* read_csv raises (unreadable file, a declared column absent)
ReadCsvRaises(maxLoads) ==
    /\ pc = "idle"
    /\ nloads < maxLoads
    /\ nloads' = nloads + 1
    /\ events' = events \o << <<"load_data", "fname">>, <<"raise", "read_csv">> >>
    /\ df' = EmptyDf
    /\ input' = EmptyDf
    /\ tbl0' = EmptyDf
    /\ UNCHANGED << variables, warnings, ctx, pc, hk, loopcols, ci, log, ext >>

\* mutant: both passes of _compute_derived run before the loop
AfterPass_PostFirst(calculation_key, d) ==
    IF calculation_key = "computation-pre" THEN "computation-post"
    ELSE IF Len(d.columns) = 0 THEN "add_table"
    ELSE "snapshot"

\* where _preprocess continues after a pass of _compute_derived
AfterPass(calculation_key, d) ==
    IF calculation_key = "computation-post" THEN "add_table"
    ELSE IF Len(d.columns) = 0 THEN "computation-post"
    ELSE "snapshot"

\* one iteration of the loop of _compute_derived
_compute_derived(calculation_key) ==
    /\ pc = calculation_key
    /\ LET var == variables[hk]
           fun == Computation(var, calculation_key)
           r   == IF fun.op = "none"
                  THEN [df |-> df, ws |-> warnings]
                  ELSE LET h == HookResult(fun, df, warnings)
                       IN  [df |-> SetItem(df, var.name, h.values, h.dtype), ws |-> h.ws]
       IN  /\ fun.op # "none" => ~KeyError(fun, df)
           /\ df' = r.df
           /\ warnings' = r.ws
           /\ log' = log \o (IF fun.op = "none" THEN <<>>
                                ELSE HookResult(fun, df, <<>>).ws)
           /\ events' = IF fun.op = "none" THEN events
                        ELSE Append(events, <<calculation_key, var.name>>)
           /\ IF hk < Len(variables)
              THEN /\ hk' = hk + 1
                   /\ UNCHANGED << pc, loopcols, ci, tbl0 >>
              ELSE /\ hk' = 1
                   /\ pc' = AfterPass(calculation_key, r.df)
                   /\ IF calculation_key = "computation-pre"
                      THEN /\ loopcols' = r.df.columns
                           /\ ci' = 1
                           /\ tbl0' = r.df
                      ELSE UNCHANGED << loopcols, ci, tbl0 >>
    /\ UNCHANGED << variables, ctx, input, nloads, ext >>

\* a hook raises: it reads a column the table does not have, or it is
\* built on DataFrame.apply and the table has no rows (apply then returns a
\* frame, whose assignment to one column may be refused)
HookRaises ==
    /\ pc \in {"computation-pre", "computation-post"}
    /\ LET var == variables[hk]
           fun == Computation(var, pc)
       IN  /\ fun.op # "none"
           /\ KeyError(fun, df) \/ (RowWise(fun) /\ NRows(df) = 0)
           /\ events' = Append(events, <<"raise", var.name>>)
    /\ pc' = "idle"
    /\ UNCHANGED << variables, warnings, df, ctx, hk, loopcols, ci, input, tbl0,
                    log, nloads, ext >>

\* "for varname in df": the three steps of one iteration
LoopSnapshot ==
    /\ pc = "snapshot"
    /\ df' = Snapshot(df, loopcols[ci])
    /\ events' = Append(events, <<"snapshot", loopcols[ci]>>)
    /\ pc' = "coerce"
    /\ UNCHANGED << variables, warnings, ctx, hk, loopcols, ci, input, tbl0,
                    log, nloads, ext >>

LoopCoerce ==
    /\ pc = "coerce"
    /\ df' = Coerce(df, loopcols[ci], VarData(loopcols[ci]))
    /\ events' = Append(events, <<"coerce", loopcols[ci]>>)
    /\ pc' = "mandatory"
    /\ UNCHANGED << variables, warnings, ctx, hk, loopcols, ci, input, tbl0,
                    log, nloads, ext >>

LoopMandatory ==
    /\ pc = "mandatory"
    /\ LET r == Mandatory(df, loopcols[ci], VarData(loopcols[ci]), warnings)
       IN  /\ df' = r.df
           /\ warnings' = r.ws
           /\ log' = log \o Mandatory(df, loopcols[ci], VarData(loopcols[ci]), <<>>).ws
    /\ events' = Append(events, <<"mandatory", loopcols[ci]>>)
    /\ IF ci < Len(loopcols)
       THEN ci' = ci + 1 /\ pc' = "snapshot"
       ELSE ci' = ci /\ pc' = "computation-post"
    /\ UNCHANGED << variables, ctx, hk, loopcols, input, tbl0, nloads, ext >>

\* ctx.get_result('root').add_table('warnings', 'Warnings', headings=['Caso', ''],
\* rows=self._warnings), then "return df"
AddTable ==
    /\ pc = "add_table"
    /\ ctx' = Append(ctx, [result |-> "root", id |-> "warnings", title |-> "Warnings",
                           headings |-> <<"Caso", "">>, rows |-> warnings])
    /\ events' = Append(events, <<"return", "df">>)
    /\ pc' = "idle"
    /\ UNCHANGED << variables, warnings, df, hk, loopcols, ci, input, tbl0,
                    log, nloads, ext >>

\* the caller logs a warning of its own, with a string or a row as the case
CallAddWarning(maxExt) ==
    /\ pc = "idle"
    /\ ext < maxExt
    /\ \E case \in {StrCase(1), SeriesCase([name |-> 0, val |-> <<>>])} :
         LET w == add_warning(warnings, case, UserText(1))
         IN  /\ warnings' = w
             /\ log' = Append(log, [case_id |-> IF case.series THEN <<"case", 0>> ELSE <<"id", 1>>,
                                    text    |-> UserText(1)])
    /\ ext' = ext + 1
    /\ UNCHANGED << variables, df, ctx, pc, hk, loopcols, ci, input, tbl0, events, nloads >>

ComputeDerivedPre == _compute_derived("computation-pre")
ComputeDerivedPost == _compute_derived("computation-post")

\* one load_data call on a newly constructed DataLoader
Init ==
    /\ variables \in Registries
    /\ warnings = <<>>
    /\ df = EmptyDf
    /\ ctx = <<>>
    /\ pc = "idle"
    /\ hk = 1
    /\ loopcols = <<>>
    /\ ci = 0
    /\ input = EmptyDf
    /\ tbl0 = EmptyDf
    /\ events = <<>>
    /\ log = <<>>
    /\ nloads = 0
    /\ ext = 0

LoadOnce == LoadData(MaxRows, 1, FileVal)

Next ==
    \/ LoadOnce
    \/ ComputeDerivedPre
    \/ HookRaises
    \/ LoopSnapshot
    \/ LoopCoerce
    \/ LoopMandatory
    \/ ComputeDerivedPost
    \/ AddTable

Spec == Init /\ [][Next]_vars

-----------------------------------------------------------------------------
(* Repeated use of one DataLoader: load_data and add_warning calls in any  *)
(* order, some loads failing.                                              *)
InitLoads ==
    /\ variables \in LoadRegistries
    /\ warnings = <<>>
    /\ df = EmptyDf
    /\ ctx = <<>>
    /\ pc = "idle"
    /\ hk = 1
    /\ loopcols = <<>>
    /\ ci = 0
    /\ input = EmptyDf
    /\ tbl0 = EmptyDf
    /\ events = <<>>
    /\ log = <<>>
    /\ nloads = 0
    /\ ext = 0

LoadAgain == LoadData(MaxLoadRows, MaxLoads, LoadVal)
LoadFails == ReadCsvRaises(MaxLoads)
CallerWarns == CallAddWarning(MaxExt)

NextLoads ==
    \/ LoadAgain
    \/ LoadFails
    \/ CallerWarns
    \/ ComputeDerivedPre
    \/ HookRaises
    \/ LoopSnapshot
    \/ LoopCoerce
    \/ LoopMandatory
    \/ ComputeDerivedPost
    \/ AddTable

SpecLoads == InitLoads /\ [][NextLoads]_vars

-----------------------------------------------------------------------------
(* The combinators on their own: a hook built by one of the factories is   *)
(* applied to a table whose columns A, B, C hold any values, and its       *)
(* result is stored as column R.                                           *)
CombCols == <<"A", "B", "C">>

\* the argument lists tried: the columns hold any values, so a list stands
\* for its permutations; one list of each length is not in column order
CombineArgs == {<<"A", "B">>, <<"C", "A">>}
LogicalArgs == {<<"A", "B">>, <<"C", "A", "B">>}
MultiboolArgs == {<<"B">>, <<"A", "B">>, <<"C", "A", "B">>}

OnConflicts == {Literal(NaN), Literal(0), Callable("first"), Callable("nan")}
NaValueSets == {DEFAULT_NA_VALUES, {}, {1, 98}}

InitComb ==
    /\ variables = <<>>
    /\ warnings = <<>>
    /\ \E n \in 1..MaxCombRows : df \in Tables(CombCols, n, CombVal)
    /\ ctx = <<>>
    /\ pc = "hook"
    /\ hk = 1
    /\ loopcols = <<>>
    /\ ci = 0
    /\ input = EmptyDf
    /\ tbl0 = EmptyDf
    /\ events = <<>>
    /\ log = <<>>
    /\ nloads = 0
    /\ ext = 0

\* df["R"] = fun(df, self), for the hook fun built by the factory named
ApplyHook(factory, fun) ==
    /\ pc = "hook"
    /\ LET h == HookResult(fun, df, warnings)
       IN  /\ df' = SetItem(df, "R", h.values, h.dtype)
           /\ warnings' = h.ws
           /\ log' = log \o HookResult(fun, df, <<>>).ws
    /\ variables' = << PostVar("R", "Float", FALSE, NoLabels, fun) >>
    /\ input' = df
    /\ events' = << <<factory, "R">> >>
    /\ pc' = "applied"
    /\ UNCHANGED << ctx, hk, loopcols, ci, tbl0, nloads, ext >>

ApplyCombine ==
    /\ pc = "hook"
    /\ \E a \in CombineArgs, oc \in OnConflicts, na \in NaValueSets :
          ApplyHook("combine_variables", combine_variables(a[1], a[2], oc, na))

ApplyCombineBool ==
    /\ pc = "hook"
    /\ \E a \in CombineArgs, na \in NaValueSets :
          ApplyHook("combine_variables_bool", combine_variables_bool(a[1], a[2], na))

ApplyLogicalOr ==
    /\ pc = "hook"
    /\ \E a \in LogicalArgs : ApplyHook("logical_or", logical_or(a))

ApplyLogicalAnd ==
    /\ pc = "hook"
    /\ \E a \in LogicalArgs : ApplyHook("logical_and", logical_and(a))

ApplyMultibool ==
    /\ pc = "hook"
    /\ \E a \in MultiboolArgs, na \in NaValueSets :
          ApplyHook("multibool_to_enum", multibool_to_enum(a, na))

NextComb ==
    \/ ApplyCombine
    \/ ApplyCombineBool
    \/ ApplyLogicalOr
    \/ ApplyLogicalAnd
    \/ ApplyMultibool

SpecComb == InitComb /\ [][NextComb]_vars

-----------------------------------------------------------------------------
(* Vocabulary of the properties *)

\* load_data has returned its table
Returned == pc = "idle" /\ Len(events) > 0 /\ events[Len(events)] = <<"return", "df">>

Happened(kind, varname) == \E i \in 1..Len(events) : events[i] = <<kind, varname>>

NoMissing(d, c) == \A i \in 1..NRows(d) : ~isnan(d.data[c][i])

MandatoryVars ==
    {variables[i].name : i \in {j \in 1..Len(variables) : variables[j].mandatory}}

DeclaredVars == {variables[i].name : i \in 1..Len(variables)}

\* the k-th smallest member of a set of numbers
Kth(S, k) == CHOOSE x \in S : Cardinality({y \in S : y < x}) = k - 1

\* the value of column v in the row labelled l, when the coercion loop started
Raw(v, l) == tbl0.data[v][l + 1]

\* the row labelled l has no usable value in v: what coercion by v's declared
\* type makes of the value the column held when the loop started is missing
MissingIn(v, l) ==
    CASE VarData(v).type = "Category" -> Raw(v, l) \notin DOMAIN VarData(v).labels
      [] VarData(v).type = "Bool"     -> Raw(v, l) \notin {0, 1}
      [] OTHER                        -> isnan(Raw(v, l))

PerdidaAt == {k \in 1..Len(warnings) : warnings[k].text.kind = "perdida"}

Count(kind) == Cardinality({i \in 1..Len(events) : events[i][1] = kind})
IsPrefix(a, b) == Len(a) <= Len(b) /\ SubSeq(b, 1, Len(a)) = a
LastLoad == CHOOSE i \in 1..Len(events) :
                /\ events[i][1] = "load_data"
                /\ \A j \in (i + 1)..Len(events) : events[j][1] # "load_data"
InThisLoad(kind, varname) ==
    \E i \in (LastLoad + 1)..Len(events) : events[i] = <<kind, varname>>

LoopKinds == {"snapshot", "coerce", "mandatory"}
PassKinds == {"computation-pre", "computation-post"}
RegIndex(name) == CHOOSE i \in 1..Len(variables) : variables[i].name = name
PreVars ==
    {variables[i].name : i \in {j \in 1..Len(variables) : variables[j].pre.op # "none"}}
At(kind, varname) == CHOOSE i \in 1..Len(events) : events[i] = <<kind, varname>>

-----------------------------------------------------------------------------
(* C1: for every variable declared mandatory (file-loaded, pre-pass or     *)
(* post-pass derived), the table load_data returns has no missing value in *)
(* its column; and once the mandatory step of a variable V has run, no     *)
(* later state of the run has a missing value in V.                        *)
C1_MandatoryNeverMissing ==
    /\ Returned => \A v \in MandatoryVars : HasCol(df, v) => NoMissing(df, v)
    /\ \A v \in MandatoryVars : Happened("mandatory", v) => NoMissing(df, v)

(* C2: when load_data returns, every declared variable that is a column    *)
(* of the table has a sibling column <name>_ORIGINAL.                      *)
C2_EveryVariableHasOriginal ==
    Returned => \A v \in DeclaredVars : HasCol(df, v) => HasCol(df, Orig(v))

(* C3: from its snapshot step on, the column <name>_ORIGINAL of a variable *)
(* of the coercion loop holds, for every row still in the table, the value *)
(* <name> held just before its coercion (the value read from the file for *)
(* a file-loaded variable), with the dtype it had then: no coercion, cast, *)
(* row drop or derivation changes it, rows only disappear from it.         *)
C3_OriginalKeepsPreCoercionValue ==
    \A k \in 1..Len(loopcols) :
        LET v == loopcols[k]
        IN  Happened("snapshot", v) =>
              /\ HasCol(df, Orig(v))
              /\ Len(df.data[Orig(v)]) = NRows(df)
              /\ df.dtype[Orig(v)] = tbl0.dtype[v]
              /\ \A i \in 1..NRows(df) :
                    /\ df.data[Orig(v)][i] = Raw(v, df.index[i])
                    /\ v \in csv_varnames =>
                          df.data[Orig(v)][i] = input.data[v][df.index[i] + 1]

\* a returned table in which a coerced value differs from its original, a
\* row was dropped and a post-pass column was derived
C3_Witness ==
    /\ Returned
    /\ NRows(df) < NRows(input)
    /\ \E v \in Range(loopcols) : \E i \in 1..NRows(df) :
          df.data[v][i] # df.data[Orig(v)][i]
    /\ \E v \in DeclaredVars : Happened("computation-post", v)

(* C5: in every state of a run the rows of the table are rows of the file  *)
(* in the file's order, none twice, every column aligned with them; and a  *)
(* row of the file is absent only if the mandatory step of some mandatory  *)
(* variable has run and the row had no usable value in that variable.      *)
C5_RowsAreSubsequence ==
    /\ \A i, j \in 1..NRows(df) : i < j => df.index[i] < df.index[j]
    /\ Range(df.index) \subseteq Range(input.index)
    /\ \A c \in Range(df.columns) : Len(df.data[c]) = NRows(df)
    /\ pc # "idle" \/ Returned =>
          \A l \in Range(input.index) \ Range(df.index) :
              \E v \in Range(loopcols) :
                  /\ VarData(v).mandatory
                  /\ Happened("mandatory", v)
                  /\ MissingIn(v, l)

\* the first row of the file was dropped and the second returned
C5_Witness ==
    /\ Returned
    /\ NRows(input) >= 2
    /\ df.index = << input.index[2] >>

(* C4: the mandatory step of a mandatory variable V appends one warning    *)
(* (case_id_fun(row), "V perdida") for each row whose V is missing then,   *)
(* in row order, and removes exactly those rows from every column.  So in  *)
(* the table load_data returns each removed row has one "perdida" warning, *)
(* naming the first mandatory variable in column order in which it has no  *)
(* usable value, no returned row has one, and there are as many "perdida"  *)
(* warnings as removed rows.                                               *)
C4_Step ==
    pc = "mandatory" /\ VarData(loopcols[ci]).mandatory =>
        LET v    == loopcols[ci]
            lost == {i \in 1..NRows(df) : isnan(df.data[v][i])}
            keep == (1..NRows(df)) \ lost
            n    == Len(warnings)
        IN  /\ Len(warnings') = n + Cardinality(lost)
            /\ SubSeq(warnings', 1, n) = warnings
            /\ \A k \in 1..Cardinality(lost) :
                  warnings'[n + k] = [case_id |-> case_id_fun(Row(df, Kth(lost, k))),
                                      text    |-> PerdidaText(v)]
            /\ df'.index = [k \in 1..Cardinality(keep) |-> df.index[Kth(keep, k)]]
            /\ df'.columns = df.columns
            /\ \A c \in Range(df.columns) :
                  df'.data[c] = [k \in 1..Cardinality(keep) |-> df.data[c][Kth(keep, k)]]

C4_Returned ==
    Returned =>
        /\ Cardinality(PerdidaAt) = NRows(input) - NRows(df)
        /\ \A l \in Range(input.index) :
              LET mine == {k \in PerdidaAt : warnings[k].case_id = <<"case", l>>}
              IN  IF l \in Range(df.index) THEN mine = {}
                  ELSE /\ Cardinality(mine) = 1
                       /\ \A k \in mine :
                            \E c \in 1..Len(loopcols) :
                                /\ warnings[k].text = PerdidaText(loopcols[c])
                                /\ VarData(loopcols[c]).mandatory
                                /\ MissingIn(loopcols[c], l)
                                /\ \A b \in 1..(c - 1) :
                                      VarData(loopcols[b]).mandatory => ~MissingIn(loopcols[b], l)

\* C4: every mandatory step warns once for each lost row and removes exactly
\* the lost rows, and every returned table has one "perdida" warning for each
\* removed row and none for the others
C4_OnePerdidaPerLostRow == [][C4_Step]_vars /\ []C4_Returned

\* two rows lost at the same mandatory step, warned in row order
C4_Witness ==
    /\ Returned
    /\ \E k \in PerdidaAt :
          /\ k + 1 \in PerdidaAt
          /\ warnings[k].text = warnings[k + 1].text
          /\ warnings[k].case_id = <<"case", 0>>
          /\ warnings[k + 1].case_id = <<"case", 1>>

(* C10: the phases of a run come in a fixed order.  Every computation-pre  *)
(* hook is invoked, in registry order, before any column is snapshotted,   *)
(* coerced or mandatory-checked, and finds in the table the columns of the *)
(* hooks before it; every computation-post hook is invoked, in registry    *)
(* order, only after each column of the loop (file-loaded or pre-pass      *)
(* derived) has been snapshotted, coerced and mandatory-checked, so that   *)
(* no mandatory file-loaded variable has a missing value in the table a    *)
(* post hook sees.                                                         *)
C10_PhaseOrder ==
    /\ \A i, j \in 1..Len(events) :
          /\ events[i][1] = "computation-pre" /\ events[j][1] \in LoopKinds => i < j
          /\ events[i][1] \in LoopKinds /\ events[j][1] = "computation-post" => i < j
          /\ events[i][1] \in PassKinds /\ events[i][1] = events[j][1] /\ i < j =>
                RegIndex(events[i][2]) < RegIndex(events[j][2])
    /\ (\E j \in 1..Len(events) : events[j][1] \in LoopKinds) =>
          \A v \in PreVars : Happened("computation-pre", v)
    /\ (\E j \in 1..Len(events) : events[j][1] = "computation-post") =>
          \A c \in csv_varnames \cup PreVars :
              /\ Happened("snapshot", c) /\ Happened("coerce", c) /\ Happened("mandatory", c)
              /\ At("snapshot", c) < At("coerce", c)
              /\ At("coerce", c) < At("mandatory", c)
    /\ pc \in PassKinds =>
          \A j \in 1..(hk - 1) :
              Computation(variables[j], pc).op # "none" => HasCol(df, variables[j].name)
    /\ pc = "computation-post" =>
          \A v \in MandatoryVars \cap csv_varnames : NoMissing(df, v)
    /\ Returned =>
          \A i \in 1..Len(variables) :
              variables[i].post.op # "none" => Happened("computation-post", variables[i].name)

\* two pre-pass hooks, the second reading the first, then the loop with a
\* row dropped, then a post-pass hook
C10_Witness ==
    /\ Returned
    /\ Happened("computation-pre", "C")
    /\ Happened("computation-pre", "D")
    /\ Happened("computation-post", "E")
    /\ NRows(df) < NRows(input)

(* C6: over any sequence of load_data and add_warning calls on one loader, *)
(* each load_data call that returns has called add_table on the 'root'     *)
(* result exactly once, after preprocessing finished, with id 'warnings',  *)
(* headings ['Caso', ''] and as rows the whole warning log since           *)
(* construction, in append order, nothing cleared, reordered or merged;    *)
(* a load_data call that raises calls add_table not at all.                *)
C6_State ==
    /\ warnings = log
    /\ Len(ctx) = Count("return")
    /\ Count("load_data") = Count("return") + Count("raise") + (IF pc = "idle" THEN 0 ELSE 1)
    /\ \A k \in 1..Len(ctx) :
          /\ ctx[k].result = "root"
          /\ ctx[k].id = "warnings"
          /\ ctx[k].headings = <<"Caso", "">>
          /\ IsPrefix(ctx[k].rows, log)

C6_Step ==
    /\ IsPrefix(log, log')
    /\ IsPrefix(ctx, ctx')
    /\ ctx' # ctx =>
          /\ Len(ctx') = Len(ctx) + 1
          /\ ctx'[Len(ctx')].rows = log
          /\ log' = log
          /\ events' = Append(events, <<"return", "df">>)
          /\ \A c \in csv_varnames \cup PreVars : InThisLoad("mandatory", c)
          /\ \A i \in 1..Len(variables) :
                variables[i].post.op # "none" =>
                    InThisLoad("computation-post", variables[i].name)
    /\ Count("raise")' > Count("raise") => ctx' = ctx

\* C6: add_table is called once for each load_data call that returns, with
\* the whole warning log, and never by a call that raises
C6_WarningsPublishedOncePerLoad == []C6_State /\ [][C6_Step]_vars

\* a load that raised after logging a warning, a warning of the caller, then
\* a load that returned: its table holds all of them, a repeated one twice
C6_Witness ==
    /\ Returned
    /\ Count("raise") = 1
    /\ ext = 1
    /\ Len(ctx) = 1
    /\ Len(ctx[1].rows) >= 3
    /\ \E i, j \in 1..Len(ctx[1].rows) : i < j /\ ctx[1].rows[i] = ctx[1].rows[j]

-----------------------------------------------------------------------------
(* The combinators: the hook in variables[1].post was applied to the table *)
(* kept in input, its result is column R of df.                            *)
Applied(factories) == pc = "applied" /\ events[1][1] \in factories
Hook == variables[1].post
IsNa(v, na_values) == isnan(v) \/ v \in na_values

\* the warnings expected: one for each row of W, in row order, with the
\* text texts[i] for row i
ExpectedWarnings(W, texts) ==
    /\ Len(warnings) = Cardinality(W)
    /\ \A k \in 1..Cardinality(W) :
          warnings[k] = [case_id |-> <<"case", input.index[Kth(W, k)]>>,
                         text    |-> texts[Kth(W, k)]]

(* C7: for every row with values v1, v2 of the two variables the hook of   *)
(* combine_variables yields missing when both are missing or in na_values, *)
(* the other value when exactly one is, the common value when they are     *)
(* equal, and else on_conflict(v1, v2) if on_conflict is callable, the     *)
(* literal on_conflict if not (v1 or v2 for combine_variables_bool); it    *)
(* logs one warning "Valores contradictorios: a=v1 vs. b=v2" for the row   *)
(* when, and only when, the values conflict and the result is missing.     *)
C7_CombineVariables ==
    Applied({"combine_variables", "combine_variables_bool"}) =>
        LET a  == Hook.args[1]
            b  == Hook.args[2]
            na == Hook.na_values
            v1(i) == input.data[a][i]
            v2(i) == input.data[b][i]
            resolved(i) ==
                IF events[1][1] = "combine_variables_bool"
                THEN (IF v1(i) # 0 THEN v1(i) ELSE v2(i))
                ELSE IF Hook.on_conflict.callable
                THEN CallConflict(Hook.on_conflict.fn, v1(i), v2(i))
                ELSE Hook.on_conflict.lit
            conflict(i) == ~IsNa(v1(i), na) /\ ~IsNa(v2(i), na) /\ v1(i) # v2(i)
            text == [i \in 1..NRows(input) |-> ConflictText(a, v1(i), b, v2(i))]
        IN  /\ \A i \in 1..NRows(input) :
                  df.data["R"][i] =
                      IF IsNa(v1(i), na) /\ IsNa(v2(i), na) THEN NaN
                      ELSE IF IsNa(v2(i), na) THEN v1(i)
                      ELSE IF IsNa(v1(i), na) THEN v2(i)
                      ELSE IF v1(i) = v2(i) THEN v1(i)
                      ELSE resolved(i)
            /\ ExpectedWarnings({i \in 1..NRows(input) : conflict(i) /\ isnan(resolved(i))}, text)

\* a conflict resolved by a callable to a value, without a warning
C7_Witness ==
    /\ Applied({"combine_variables"})
    /\ Hook.on_conflict = Callable("first")
    /\ Hook.na_values = DEFAULT_NA_VALUES
    /\ input.data[Hook.args[1]][1] = 1
    /\ input.data[Hook.args[2]][1] = 2
    /\ df.data["R"][1] = 1
    /\ warnings = <<>>

(* C8: for n >= 2 variables and every row whose values are 1.0, 0.0 or     *)
(* missing, logical_or is 1.0 if any is 1.0, 0.0 if all are 0.0, else      *)
(* missing, and logical_and is 1.0 if all are 1.0, 0.0 if any is 0.0, else *)
(* missing; the true and false masks never overlap, and no warning is      *)
(* logged.                                                                 *)
C8_LogicalOrAnd ==
    Applied({"logical_or", "logical_and"}) =>
        LET a == Hook.args
            vals(i) == {input.data[a[k]][i] : k \in 1..Len(a)}
            m == LogicalMasks(Hook.combinators[1], Hook.combinators[2], a, input)
        IN  /\ Len(a) >= 2
            /\ warnings = <<>>
            /\ \A i \in 1..NRows(input) :
                  /\ ~(m.true_values[i] /\ m.false_values[i])
                  /\ vals(i) \subseteq {1, 0, NaN} =>
                        df.data["R"][i] =
                            IF events[1][1] = "logical_or"
                            THEN (IF 1 \in vals(i) THEN 1
                                  ELSE IF vals(i) = {0} THEN 0 ELSE NaN)
                            ELSE (IF vals(i) = {1} THEN 1
                                  ELSE IF 0 \in vals(i) THEN 0 ELSE NaN)

\* logical_or of three variables, one 1.0, one 0.0, one missing: 1.0
C8_Witness ==
    /\ Applied({"logical_or"})
    /\ Len(Hook.args) = 3
    /\ {input.data[Hook.args[k]][1] : k \in 1..3} = {1, 0, NaN}
    /\ df.data["R"][1] = 1

(* C9: for every row the hook of multibool_to_enum yields missing, without *)
(* a warning, when every listed variable is missing or in na_values; the   *)
(* name of the variable when exactly one listed variable is 1.0 (and not   *)
(* all are missing or in na_values); and else missing with one warning     *)
(* "Multi-bool a enum - valores contradictorios: ..." for the row.         *)
C9_MultiboolToEnum ==
    Applied({"multibool_to_enum"}) =>
        LET a  == Hook.args
            na == Hook.na_values
            vals(i) == [k \in 1..Len(a) |-> input.data[a[k]][i]]
            allna(i) == \A k \in 1..Len(a) : IsNa(vals(i)[k], na)
            ones(i) == {k \in 1..Len(a) : vals(i)[k] = 1}
            text == [i \in 1..NRows(input) |-> MultiboolText(a, vals(i))]
        IN  /\ \A i \in 1..NRows(input) :
                  df.data["R"][i] =
                      IF allna(i) THEN NaN
                      ELSE IF Cardinality(ones(i)) = 1
                      THEN NameCode(a[CHOOSE k \in ones(i) : TRUE])
                      ELSE NaN
            /\ ExpectedWarnings({i \in 1..NRows(input) :
                                    ~allna(i) /\ Cardinality(ones(i)) # 1}, text)

\* the all-0.0 row: missing, with its warning
C9_Witness ==
    /\ Applied({"multibool_to_enum"})
    /\ Len(Hook.args) = 3
    /\ \A k \in 1..3 : input.data[Hook.args[k]][1] = 0
    /\ isnan(df.data["R"][1])
    /\ Len(warnings) = 1

====
